---- MODULE Spec2Model ----
(***************************************************************************)
(* Model of modern_talking's label reconciliation                          *)
(* (modern_talking/evaluation/__init__.py, Metric.get_all_ids and          *)
(* Metric.get_discrete_labels) and of the Cascade combinator               *)
(* (modern_talking/matchers/combine.py).                                   *)
(*                                                                         *)
(* Specifications:                                                         *)
(*   Spec         get_discrete_labels on drawn label mappings              *)
(*   PredictSpec  Cascade.predict on a drawn dataset and sub-matcher       *)
(*                results                                                   *)
(*   LifecycleSpec  Cascade.load_model, save_model and train, called in    *)
(*                any order on a drawn file system                         *)
(*   PipelineSpec  runs of the pipeline's call order over a Cascade:       *)
(*                prepare, load_model, train and save_model after a miss,  *)
(*                predict; each run is a new process and a fresh Cascade   *)
(*   SlugSpec     Cascade.slug and BidirectionalLstmMatcher.slug, with a   *)
(*                str modelled as the sequence of its characters           *)
(*   BilstmSlugSpec  the slugs of two BidirectionalLstmMatcher instances   *)
(*   UntrainedSpec  lifecycle calls on an UntrainedMatcher                 *)
(*   MatcherSpec  lifecycle calls on one learned matcher                   *)
(*   PrepareSpec  _prepare_labelled_data of the BiLSTM matcher             *)
(*   ModeSpec     get_discrete_labels on the same mappings under both      *)
(*                modes                                                    *)
(*                                                                         *)
(* Labels are floats in the source.  The model keeps them as fixed-point   *)
(* tenths: 3 is 0.3, 5 is 0.5, 9 is 0.9, 10 is 1.0.  The discretisation    *)
(* threshold 0.5 is Half and the integer 1 of the relaxed default is One.  *)
(***************************************************************************)
EXTENDS Integers, Sequences, FiniteSets

\* ------------------------------------------------------------------ bounds

\* Largest number of entries of a Labels mapping drawn as an input
\* (the id universe below has three ids).
MaxEntries == 3

\* Number of calls of get_discrete_labels a caller makes on the same inputs.
MaxCalls == 2

\* ------------------------------------------------------- program constants

\* The literal 0.5 of `>= 0.5`, in tenths.
Half == 5

\* The literal 1 of `missing = 1 if mode == EvaluationMode.relaxed else 0`,
\* in tenths.
One == 10

\* -------------------------------------------------------------- data model

ArgumentId == {"a1"}

KeyPointId == {"k1", "k2", "k3"}

\* Tuple[ArgumentId, KeyPointId]
ArgumentKeyPointIdPair == ArgumentId \X KeyPointId

\* Label = float; the values drawn for the inputs (0.3, 0.5, 0.9, 1.0).
Label == {3, Half, 9, One}

\* Labels = Dict[ArgumentKeyPointIdPair, Label]: a sparse mapping.
Labels ==
    UNION { [D -> Label] :
            D \in { S \in SUBSET ArgumentKeyPointIdPair :
                    Cardinality(S) <= MaxEntries } }

EvaluationMode == {"strict", "relaxed"}

\* ------------------------------------------------------------------- state

VARIABLES
    predicted_labels,     \* argument of get_discrete_labels
    ground_truth_labels,  \* argument of get_discrete_labels
    mode,                 \* argument of get_discrete_labels
    ids,                  \* local `ids` of the last call
    order,                \* the order in which the set `ids` iterates
    y_true,               \* local `y_true` of the last call
    y_pred,               \* local `y_pred` of the last call (<<>> if unbound)
    outcome,              \* "none" | "returned" | "KeyError"
    calls                 \* number of calls made so far

metricVars == << predicted_labels, ground_truth_labels, mode, ids, order,
                 y_true, y_pred, outcome, calls >>

VARIABLES
    data,             \* argument of Cascade.predict: arguments, key_points
    threshold,        \* Cascade.threshold, in tenths
    labels_a,         \* result of matcher_a.predict(data)
    labels_b,         \* result of matcher_b.predict(data)
    cascade_labels,   \* Labels returned by Cascade.predict (<< >> if none)
    cascade_outcome   \* "none" | "returned" | "KeyError"

predictVars == << data, threshold, labels_a, labels_b,
                  cascade_labels, cascade_outcome >>

VARIABLES
    kind_a,       \* class of matcher_a: "bilstm" | "pickle"
    kind_b,       \* class of matcher_b
    slug_a,       \* matcher_a.slug
    slug_b,       \* matcher_b.slug
    matcher_a,    \* matcher_a's model attribute and where it came from
    matcher_b,    \* matcher_b's model attribute and where it came from
    fs,           \* the file system: path -> node
    last_call     \* the last Cascade lifecycle call and how it ended

lifecycleVars == << kind_a, kind_b, slug_a, slug_b, matcher_a, matcher_b,
                    fs, last_call >>

VARIABLES
    pc,           \* the step of the pipeline run that comes next
    run,          \* number of the pipeline run (one process, one Cascade)
    route,        \* how load_model ended in this run: "hit" | "partial" | "miss"
    previous,     \* route and predictions of the run before this one
    trace         \* the matcher operations this run has called, in order

pipelineVars == << pc, run, route, previous, trace >>

VARIABLES
    cascade_1,    \* a Cascade's threshold and sub-slugs, and its slug as read
    cascade_2,    \* a second Cascade, likewise
    bilstm,       \* a BidirectionalLstmMatcher's hyperparameters and its slug
    bilstm_2      \* a second BidirectionalLstmMatcher, likewise

slugVars == << cascade_1, cascade_2, bilstm, bilstm_2 >>

VARIABLES
    labelled_data,   \* argument of _prepare_labelled_data
    augment,         \* argument of _prepare_labelled_data
    label_policy,    \* argument of _prepare_labelled_data
    texts,           \* the (arg_text, kp_text) pairs it produced, in order
    train_labels,    \* its local `labels`, in order
    prepared         \* whether it has been called

prepVars == << labelled_data, augment, label_policy, texts, train_labels,
               prepared >>

vars == << metricVars, predictVars, lifecycleVars, pipelineVars, slugVars,
           prepVars >>

\* ---------------------------------------------------------- dict primitives

\* d.get(k, default): never raises.
DictGet(d, k, default) ==
    IF k \in DOMAIN d
    THEN [raised |-> FALSE, value |-> d[k]]
    ELSE [raised |-> FALSE, value |-> default]

\* d[k]: raises KeyError when k is no key of d.
DictIndex(d, k) ==
    IF k \in DOMAIN d
    THEN [raised |-> FALSE, value |-> d[k]]
    ELSE [raised |-> TRUE, value |-> 0]

\* All iteration orders a set can have: each element exactly once.
Orderings(S) ==
    LET n == Cardinality(S)
    IN  { s \in [1..n -> S] : \A i, j \in 1..n : s[i] = s[j] => i = j }

\* ------------------------------------------------------ Metric.get_all_ids

\* Variant: the second ids.update(...) is dropped.
GetAllIdsKeysOfPredictedOnly(predicted, ground_truth) ==
    {} \cup DOMAIN predicted

\* ids = set(); ids.update(predicted.keys()); ids.update(ground_truth.keys())
GetAllIds(predicted, ground_truth) ==
    ({} \cup DOMAIN predicted) \cup DOMAIN ground_truth

\* ----------------------------------------------- Metric.get_discrete_labels

\* Variant: the default ignores the mode.
MissingAlwaysZero(m) == 0

\* missing = 1 if mode == EvaluationMode.relaxed else 0
Missing(m) == IF m = "relaxed" THEN One ELSE 0

\* Variant: ground_truth_labels[arg, kp] in place of .get.
TrueLookupByIndex(ground_truth, id, missing) ==
    DictIndex(ground_truth, id)

\* ground_truth_labels.get((arg, kp), missing)
TrueLookup(ground_truth, id, missing) ==
    DictGet(ground_truth, id, missing)

\* Variant: > in place of >=.
DiscreteTrueStrictlyGreater(v) == IF v > Half THEN 1 ELSE 0

\* 1 if <ground-truth value> >= 0.5 else 0
DiscreteTrue(v) == IF v >= Half THEN 1 ELSE 0

\* Variant: predicted_labels.get((arg, kp), 0) in place of indexing.
PredLookupWithDefault(predicted, id) ==
    DictGet(predicted, id, 0)

\* predicted_labels[arg, kp]
PredLookup(predicted, id) ==
    DictIndex(predicted, id)

\* Variant: > in place of >=.
DiscretePredStrictlyGreater(v) == IF v > Half THEN 1 ELSE 0

\* 1 if <predicted value> >= 0.5 else 0
DiscretePred(v) == IF v >= Half THEN 1 ELSE 0

\* Variant: the second comprehension iterates in another order.
PredIterationOrderReversed(ord) ==
    [i \in 1..Len(ord) |-> ord[Len(ord) + 1 - i]]

\* `for arg, kp in ids` of the second comprehension: the set is the one the
\* first comprehension iterated and was not modified in between, so it
\* iterates in the same order.
PredIterationOrder(ord) == ord

\* Variant: setdefault in place of get, which inserts the default.
GroundTruthFilledWithDefault(ground_truth, all, missing) ==
    [id \in (DOMAIN ground_truth) \cup all |->
        IF id \in DOMAIN ground_truth THEN ground_truth[id] ELSE missing]

\* The ground-truth mapping after the call: dict.get inserts nothing.
GroundTruthAfter(ground_truth, all, missing) == ground_truth

\* A list comprehension over lookups raises as soon as one lookup raises.
Raises(lookups) == \E i \in 1..Len(lookups) : lookups[i].raised

\* get_discrete_labels(predicted_labels, ground_truth_labels, m), m = mode, with ord
\* the order in which the set of ids iterates during this call.
GetDiscreteLabels(m, ord) ==
    LET all      == GetAllIds(predicted_labels, ground_truth_labels)
        missing  == Missing(m)
        tLookups == [i \in 1..Len(ord) |->
                        TrueLookup(ground_truth_labels, ord[i], missing)]
        pOrd     == PredIterationOrder(ord)
        pLookups == [i \in 1..Len(pOrd) |->
                        PredLookup(predicted_labels, pOrd[i])]
    IN  /\ mode' = m
        /\ ids' = all
        /\ order' = ord
        /\ calls' = calls + 1
        /\ predicted_labels' = predicted_labels
        /\ ground_truth_labels' =
               GroundTruthAfter(ground_truth_labels, all, missing)
        /\ IF Raises(tLookups)
           THEN /\ y_true' = << >>
                /\ y_pred' = << >>
                /\ outcome' = "KeyError"
           ELSE /\ y_true' = [i \in 1..Len(ord) |->
                                 DiscreteTrue(tLookups[i].value)]
                /\ IF Raises(pLookups)
                   THEN /\ y_pred' = << >>
                        /\ outcome' = "KeyError"
                   ELSE /\ y_pred' = [i \in 1..Len(pOrd) |->
                                         DiscretePred(pLookups[i].value)]
                        /\ outcome' = "returned"

\* A caller evaluates its predicted and ground-truth mappings under its mode.
Call ==
    /\ calls < MaxCalls
    /\ \E ord \in Orderings(GetAllIds(predicted_labels, ground_truth_labels)) :
           GetDiscreteLabels(mode, ord)
    /\ UNCHANGED << predictVars, lifecycleVars, pipelineVars, slugVars, prepVars >>

\* The slug of a matcher that was not asked for it.
NotRead == [slug |-> << >>]

\* No training examples are prepared.
NoPrepare ==
    /\ labelled_data = [arguments |-> {}, key_points |-> {}, labels |-> << >>]
    /\ augment = 0
    /\ label_policy = "skip"
    /\ texts = << >>
    /\ train_labels = << >>
    /\ prepared = FALSE

\* No slug is read and no training examples are prepared.
NoSlugs ==
    /\ NoPrepare
    /\ cascade_1 = NotRead
    /\ cascade_2 = NotRead
    /\ bilstm = NotRead
    /\ bilstm_2 = NotRead

\* No pipeline runs.
NoPipeline ==
    /\ NoSlugs
    /\ pc = "free"
    /\ run = 1
    /\ route = "none"
    /\ previous = [route |-> "none", labels |-> << >>]
    /\ trace = << >>

\* No Cascade is trained, saved or loaded.
NoLifecycle ==
    /\ NoPipeline
    /\ kind_a = "bilstm"
    /\ kind_b = "bilstm"
    /\ slug_a = "x"
    /\ slug_b = "y"
    /\ matcher_a = [model |-> "none", origin |-> "none"]
    /\ matcher_b = [model |-> "none", origin |-> "none"]
    /\ fs = << >>
    /\ last_call = [op |-> "none"]

\* No Cascade takes part in an evaluation of label mappings.
NoCascade ==
    /\ data = [arguments |-> {}, key_points |-> {}]
    /\ threshold = Half
    /\ labels_a = << >>
    /\ labels_b = << >>
    /\ cascade_labels = << >>
    /\ cascade_outcome = "none"
    /\ NoLifecycle

Init ==
    /\ predicted_labels \in Labels
    /\ ground_truth_labels \in Labels
    /\ mode \in EvaluationMode
    /\ ids = {}
    /\ order = << >>
    /\ y_true = << >>
    /\ y_pred = << >>
    /\ outcome = "none"
    /\ calls = 0
    /\ NoCascade

Next == Call

Spec == Init /\ [][Next]_vars

\* Mappings over two ids with labels 0.3 and 0.5, for callers that evaluate
\* the same mappings under both modes.
TwoIdLabels ==
    { l \in Labels :
        /\ DOMAIN l \subseteq {<< "a1", "k1" >>, << "a1", "k2" >>}
        /\ \A id \in DOMAIN l : l[id] \in {3, Half} }

ModeInit ==
    /\ predicted_labels \in TwoIdLabels
    /\ ground_truth_labels \in TwoIdLabels
    /\ mode = "strict"
    /\ ids = {}
    /\ order = << >>
    /\ y_true = << >>
    /\ y_pred = << >>
    /\ outcome = "none"
    /\ calls = 0
    /\ NoCascade

\* A caller evaluates its mappings under a mode it picks for the call.
CallUnderMode ==
    /\ calls < MaxCalls
    /\ \E m \in EvaluationMode,
          ord \in Orderings(GetAllIds(predicted_labels, ground_truth_labels)) :
           GetDiscreteLabels(m, ord)
    /\ UNCHANGED << predictVars, lifecycleVars, pipelineVars, slugVars,
                    prepVars >>

ModeNext == CallUnderMode

ModeSpec == ModeInit /\ [][ModeNext]_vars

\* No evaluation takes part in the Cascade specifications.
NoEvaluation ==
    /\ predicted_labels = << >>
    /\ ground_truth_labels = << >>
    /\ mode = "strict"
    /\ ids = {}
    /\ order = << >>
    /\ y_true = << >>
    /\ y_pred = << >>
    /\ outcome = "none"
    /\ calls = 0

\* ---------------------------------------------------------- Cascade.predict

Topic == {"T", "U"}

Stance == {1, -1}

\* Argument and KeyPoint: id, topic, stance (the text is never read here).
Attributes == { << "T", 1 >>, << "T", -1 >>, << "U", 1 >> }

Item(id, at) == [id |-> id, topic |-> at[1], stance |-> at[2]]

\* Dataset: two arguments and two key points; a1 and k1 share topic T and
\* stance 1, the attributes of a2 and of k2 are drawn.
Dataset ==
    { [arguments  |-> {Item("a1", << "T", 1 >>), Item("a2", at)},
       key_points |-> {Item("k1", << "T", 1 >>), Item("k2", kt)}] :
        at \in Attributes, kt \in Attributes }

PairIds == {"a1", "a2"} \X {"k1", "k2"}

\* Labels a sub-matcher may return: any sparse mapping over the pairs.
SubLabels(values) == UNION { [D -> values] : D \in SUBSET PairIds }

\* Labels matcher A returns (0.5, 0.9) and matcher B returns (0.1, 0.9).
LabelsA == SubLabels({Half, 9})

LabelsB == SubLabels({1, 9})

Threshold == {Half, 9}

\* Variant: the stance is not compared.
EligibleTopicOnly(arg, kp) == arg.topic = kp.topic

\* if arg.topic == kp.topic and arg.stance == kp.stance
Eligible(arg, kp) == arg.topic = kp.topic /\ arg.stance = kp.stance

\* Variant: > in place of >=.
AcceptsAStrictlyGreater(label_a, th) == label_a > th

\* if label_a >= self.threshold
AcceptsA(label_a, th) == label_a >= th

\* Variant: labels_b.get(arg_kp, 0) in place of indexing.
FallbackLookupWithDefault(lb, arg_kp) == DictGet(lb, arg_kp, 0)

\* return labels_b[arg_kp]
FallbackLookup(lb, arg_kp) == DictIndex(lb, arg_kp)

\* Variant: labels_a.get(arg_kp, 0) in place of indexing.
PrimaryLookupWithDefault(la, arg_kp) == DictGet(la, arg_kp, 0)

\* label_a = labels_a[arg_kp]
PrimaryLookup(la, arg_kp) == DictIndex(la, arg_kp)

\* Cascade.combined_prediction(arg_kp, labels_a, labels_b)
CombinedPrediction(arg_kp, la, lb, th) ==
    LET label_a == PrimaryLookup(la, arg_kp)
    IN  IF label_a.raised THEN label_a
        ELSE IF AcceptsA(label_a.value, th) THEN label_a
        ELSE FallbackLookup(lb, arg_kp)

\* The (arg.id, kp.id) keys of the dict comprehension of Cascade.predict.
PredictKeys(d) ==
    { << arg.id, kp.id >> :
        << arg, kp >> \in { pr \in d.arguments \X d.key_points :
                              Eligible(pr[1], pr[2]) } }

\* The dict comprehension of Cascade.predict over the sub-matchers' results
\* la and lb: the Labels it returns, or the KeyError it raises.
PredictResult(d, la, lb, th) ==
    LET keys     == PredictKeys(d)
        combined == [arg_kp \in keys |->
                        CombinedPrediction(arg_kp, la, lb, th)]
    IN  IF \E arg_kp \in keys : combined[arg_kp].raised
        THEN [outcome |-> "KeyError", labels |-> << >>]
        ELSE [outcome |-> "returned",
              labels  |-> [arg_kp \in keys |-> combined[arg_kp].value]]

\* Cascade.predict(data), with labels_a and labels_b the sub-matchers'
\* results.
CascadePredict ==
    LET res == PredictResult(data, labels_a, labels_b, threshold)
    IN  /\ cascade_outcome = "none"
        /\ cascade_labels' = res.labels
        /\ cascade_outcome' = res.outcome
        /\ UNCHANGED << data, threshold, labels_a, labels_b >>
        /\ UNCHANGED << metricVars, lifecycleVars, pipelineVars, slugVars, prepVars >>

PredictInit ==
    /\ data \in Dataset
    /\ threshold \in Threshold
    /\ labels_a \in LabelsA
    /\ labels_b \in LabelsB
    /\ cascade_labels = << >>
    /\ cascade_outcome = "none"
    /\ NoEvaluation
    /\ NoLifecycle

PredictNext == CascadePredict

PredictSpec == PredictInit /\ [][PredictNext]_vars

\* -------------------------------------------------------- the file system

\* Weights a training run can end with, and the weights of a checkpoint
\* that an earlier run left on disk.
TrainedWeights == {"w1", "w2"}

StoredWeights == {"w0"}

SubSlug == {"x", "y"}

MatcherKind == {"bilstm", "pickle"}

\* The directory the models are stored under and the cache directory.
ModelPath == << "models" >>

CachePath == << "cache" >>

\* path / slug
PathJoin(path, slug) == Append(path, slug)

Absent == [type |-> "absent", model |-> "none"]

EmptyDir == [type |-> "dir", model |-> "none"]

\* A directory that holds the saved model model.tf.
ModelDir(w) == [type |-> "dir", model |-> w]

\* A file that holds a pickled (model, encoder).
ModelFile(w) == [type |-> "file", model |-> w]

\* path.exists()
Exists(f, path) == f[path].type # "absent"

\* path.mkdir(exist_ok=True) under an existing parent: a missing path
\* becomes a directory, a directory is reused, a file is an error.
Mkdir(f, path) ==
    IF f[path].type = "absent"
    THEN [err |-> "ok", fs |-> [f EXCEPT ![path] = EmptyDir]]
    ELSE IF f[path].type = "dir"
    THEN [err |-> "ok", fs |-> f]
    ELSE [err |-> "FileExistsError", fs |-> f]

\* ------------------------------------------------------------ sub-matchers

NoModel == [model |-> "none", origin |-> "none"]

\* Variant: the path is read even if the matcher already holds a model.
BilstmLoadModelAlwaysReads(m, f, path) ==
    IF ~(f[path].type = "dir" /\ f[path].model # "none")
    THEN [result |-> FALSE, m |-> m]
    ELSE [result |-> TRUE,
          m |-> [model |-> f[path].model, origin |-> "loaded"]]

\* BidirectionalLstmMatcher.load_model(path)
BilstmLoadModel(m, f, path) ==
    IF m.model # "none"
    THEN [result |-> TRUE, m |-> m]
    ELSE IF ~(f[path].type = "dir" /\ f[path].model # "none")
    THEN [result |-> FALSE, m |-> m]
    ELSE [result |-> TRUE,
          m |-> [model |-> f[path].model, origin |-> "loaded"]]

\* load_model(path) of the pickle-based matchers of regression.py
PickleLoadModel(m, f, path) ==
    IF m.model # "none"
    THEN [result |-> TRUE, m |-> m]
    ELSE IF ~(Exists(f, path) /\ f[path].type = "file")
    THEN [result |-> FALSE, m |-> m]
    ELSE [result |-> TRUE,
          m |-> [model |-> f[path].model, origin |-> "loaded"]]

SubLoadModel(kind, m, f, path) ==
    IF kind = "bilstm" THEN BilstmLoadModel(m, f, path)
                       ELSE PickleLoadModel(m, f, path)

\* BidirectionalLstmMatcher.save_model(path): self.model.save(path /
\* "model.tf", overwrite=True); self.model is None without a model.
BilstmSaveModel(m, f, path) ==
    IF m.model = "none"
    THEN [err |-> "AttributeError", fs |-> f]
    ELSE IF f[path].type = "file"
    THEN [err |-> "NotADirectoryError", fs |-> f]
    ELSE [err |-> "ok", fs |-> [f EXCEPT ![path] = ModelDir(m.model)]]

\* save_model(path) of the pickle-based matchers: path.open("wb") and dump.
PickleSaveModel(m, f, path) ==
    IF f[path].type = "dir"
    THEN [err |-> "IsADirectoryError", fs |-> f]
    ELSE [err |-> "ok", fs |-> [f EXCEPT ![path] = ModelFile(m.model)]]

SubSaveModel(kind, m, f, path) ==
    IF kind = "bilstm" THEN BilstmSaveModel(m, f, path)
                       ELSE PickleSaveModel(m, f, path)

\* Variant: a sub-matcher that already holds a model is not trained again.
BilstmTrainKeepsModel(m, w) ==
    IF m.model # "none"
    THEN [err |-> "ok", m |-> m]
    ELSE [err |-> "ok", m |-> [model |-> w, origin |-> "trained"]]

\* BidirectionalLstmMatcher.train(train_data, dev_data, cache_path): builds
\* a new model and fits it; w is the weights the fit ends with.
BilstmTrain(m, w) ==
    [err |-> "ok", m |-> [model |-> w, origin |-> "trained"]]

\* train(self, train_data, dev_data) of the pickle-based matchers, called
\* with a third positional argument.
PickleTrain(m, w) == [err |-> "TypeError", m |-> m]

SubTrain(kind, m, w) ==
    IF kind = "bilstm" THEN BilstmTrain(m, w) ELSE PickleTrain(m, w)

\* --------------------------------------------------- Cascade lifecycle calls

\* Variant: the existence of path_b is not checked.
BothExistOnlyA(f, path_a, path_b) == Exists(f, path_a)

\* not (not path_a.exists() or not path_b.exists())
BothExist(f, path_a, path_b) == Exists(f, path_a) /\ Exists(f, path_b)

\* Variant: `or` in place of `and`.
BothLoadedEither(ra, rb) == ra \/ rb

\* self.matcher_a.load_model(path_a) and self.matcher_b.load_model(path_b)
BothLoaded(ra, rb) == ra /\ rb

\* Variant: both sub-matchers are handed one shared subdirectory.
SubPathSharedDirectory(path, slug) == PathJoin(path, "x")

\* path / self.matcher_a.slug, path / self.matcher_b.slug
SubPath(path, slug) == PathJoin(path, slug)

Ended(op, path_a, path_b, result) ==
    [op |-> op, path_a |-> path_a, path_b |-> path_b, result |-> result]

\* Cascade.load_model(path)
CascadeLoadModel(path) ==
    LET path_a == SubPath(path, slug_a)
        path_b == SubPath(path, slug_b)
        la     == SubLoadModel(kind_a, matcher_a, fs, path_a)
        lb     == SubLoadModel(kind_b, matcher_b, fs, path_b)
    IN  /\ fs' = fs
        /\ IF ~BothExist(fs, path_a, path_b)
           THEN /\ UNCHANGED << matcher_a, matcher_b >>
                /\ last_call' = Ended("load_model", path_a, path_b, "False")
           ELSE /\ matcher_a' = la.m
                \* `and` calls matcher_b.load_model only if A's returned True
                /\ matcher_b' = IF la.result THEN lb.m ELSE matcher_b
                /\ last_call' =
                      Ended("load_model", path_a, path_b,
                            IF BothLoaded(la.result, lb.result)
                            THEN "True" ELSE "False")
        /\ UNCHANGED << kind_a, kind_b, slug_a, slug_b >>

\* Cascade.save_model(path)
CascadeSaveModel(path) ==
    LET path_a == SubPath(path, slug_a)
        path_b == SubPath(path, slug_b)
        s1     == Mkdir(fs, path_a)
        s2     == Mkdir(s1.fs, path_b)
        s3     == SubSaveModel(kind_a, matcher_a, s2.fs, path_a)
        s4     == SubSaveModel(kind_b, matcher_b, s3.fs, path_b)
        steps  == << s1, s2, s3, s4 >>
        failed == { i \in 1..4 : steps[i].err # "ok" }
        first  == CHOOSE i \in failed : \A j \in failed : i <= j
    IN  /\ IF failed = {}
           THEN /\ fs' = s4.fs
                /\ last_call' = Ended("save_model", path_a, path_b, "None")
           ELSE /\ fs' = steps[first].fs
                /\ last_call' =
                      Ended("save_model", path_a, path_b, steps[first].err)
        /\ UNCHANGED << kind_a, kind_b, slug_a, slug_b,
                        matcher_a, matcher_b >>

\* The arguments of one call of a sub-matcher's train.
SubTrainCall(matcher, train_data, dev_data, cache_path) ==
    [matcher |-> matcher, train_data |-> train_data, dev_data |-> dev_data,
     cache_path |-> cache_path]

\* Cascade.train returned or raised; sub_calls lists the calls of train it
\* made on its sub-matchers, in order.
TrainEnded(train_data, dev_data, path_a, path_b, result, sub_calls) ==
    [op |-> "train", path_a |-> path_a, path_b |-> path_b,
     result |-> result, train_data |-> train_data, dev_data |-> dev_data,
     sub_calls |-> sub_calls]

\* Variant: matcher B is trained on the development data.
TrainDataForBIsDevData(train_data, dev_data) == dev_data

\* The train_data argument of self.matcher_b.train
TrainDataForB(train_data, dev_data) == train_data

\* Cascade.train(train_data, dev_data, cache_path); wa and wb are the
\* weights the two fits end with.
CascadeTrain(train_data, dev_data, cache_path, wa, wb) ==
    LET cache_path_a == SubPath(cache_path, slug_a)
        cache_path_b == SubPath(cache_path, slug_b)
        s1 == Mkdir(fs, cache_path_a)
        s2 == Mkdir(s1.fs, cache_path_b)
        ta == SubTrain(kind_a, matcher_a, wa)
        tb == SubTrain(kind_b, matcher_b, wb)
        call_a == SubTrainCall("matcher_a", train_data, dev_data,
                               cache_path_a)
        call_b == SubTrainCall("matcher_b",
                               TrainDataForB(train_data, dev_data),
                               dev_data, cache_path_b)
    IN  IF s1.err # "ok"
        THEN /\ fs' = s1.fs
             /\ UNCHANGED << matcher_a, matcher_b >>
             /\ last_call' =
                   TrainEnded(train_data, dev_data, cache_path_a,
                              cache_path_b, s1.err, << >>)
        ELSE IF s2.err # "ok"
        THEN /\ fs' = s2.fs
             /\ UNCHANGED << matcher_a, matcher_b >>
             /\ last_call' =
                   TrainEnded(train_data, dev_data, cache_path_a,
                              cache_path_b, s2.err, << >>)
        ELSE /\ fs' = s2.fs
             /\ matcher_a' = ta.m
             /\ matcher_b' = IF ta.err = "ok" THEN tb.m ELSE matcher_b
             /\ last_call' =
                   TrainEnded(train_data, dev_data, cache_path_a,
                              cache_path_b,
                              IF ta.err # "ok" THEN ta.err
                              ELSE IF tb.err # "ok" THEN tb.err ELSE "None",
                              IF ta.err # "ok" THEN << call_a >>
                              ELSE << call_a, call_b >>)

\* ------------------------------------------------- free lifecycle sequences

Paths == { PathJoin(root, slug) :
             root \in {ModelPath, CachePath}, slug \in SubSlug }

\* What an earlier run can have left at path / slug.
ModelNodes ==
    {Absent, EmptyDir}
        \cup { ModelDir(w) : w \in StoredWeights }
        \cup { ModelFile(w) : w \in StoredWeights }

CacheNodes == {Absent, EmptyDir}

FileSystems ==
    { f \in [Paths -> ModelNodes] :
        \A slug \in SubSlug : f[PathJoin(CachePath, slug)] \in CacheNodes }

LifecycleInit ==
    /\ kind_a \in MatcherKind
    /\ kind_b \in MatcherKind
    /\ slug_a \in SubSlug
    /\ slug_b \in SubSlug
    /\ matcher_a = NoModel
    /\ matcher_b = NoModel
    /\ fs \in FileSystems
    /\ last_call = [op |-> "none"]
    /\ NoPipeline
    /\ NoEvaluation
    /\ data = [arguments |-> {}, key_points |-> {}]
    /\ threshold = Half
    /\ labels_a = << >>
    /\ labels_b = << >>
    /\ cascade_labels = << >>
    /\ cascade_outcome = "none"

LoadModel ==
    /\ CascadeLoadModel(ModelPath)
    /\ UNCHANGED << metricVars, predictVars, pipelineVars, slugVars, prepVars >>

SaveModel ==
    /\ CascadeSaveModel(ModelPath)
    /\ UNCHANGED << metricVars, predictVars, pipelineVars, slugVars, prepVars >>

\* The labelled datasets a caller holds.
LabelledSplit == {"train", "dev"}

Train ==
    /\ \E train_data, dev_data \in LabelledSplit, wa, wb \in TrainedWeights :
          CascadeTrain(train_data, dev_data, CachePath, wa, wb)
    /\ UNCHANGED << kind_a, kind_b, slug_a, slug_b >>
    /\ UNCHANGED << metricVars, predictVars, pipelineVars, slugVars, prepVars >>

LifecycleNext == LoadModel \/ SaveModel \/ Train

LifecycleSpec == LifecycleInit /\ [][LifecycleNext]_vars

\* ------------------------------------------------------- the pipeline run

\* Number of pipeline runs over the same model and cache directories.
MaxRuns == 2

\* The test split every run predicts on: (a1, k1) and (a2, k1) are eligible.
TestData ==
    [arguments  |-> {Item("a1", << "T", 1 >>), Item("a2", << "T", 1 >>)},
     key_points |-> {Item("k1", << "T", 1 >>), Item("k2", << "U", 1 >>)}]

\* The label a model gives to a pair is a function of its weights.
Score(w) == CASE w = "w0" -> 9
              [] w = "w1" -> 1
              [] w = "w2" -> Half

\* predict(data) of a sub-matcher: one label per eligible pair, from the
\* model; without a model self.model is None.
SubPredict(m, d) ==
    IF m.model = "none"
    THEN [raised |-> TRUE, labels |-> << >>]
    ELSE [raised |-> FALSE,
          labels |-> [arg_kp \in PredictKeys(d) |-> Score(m.model)]]

PipelineInit ==
    /\ kind_a \in MatcherKind
    /\ kind_b \in MatcherKind
    /\ slug_a \in SubSlug
    /\ slug_b \in SubSlug
    /\ matcher_a = NoModel
    /\ matcher_b = NoModel
    /\ fs \in FileSystems
    /\ last_call = [op |-> "none"]
    /\ pc = "prepare"
    /\ run = 1
    /\ route = "none"
    /\ previous = [route |-> "none", labels |-> << >>]
    /\ trace = << >>
    /\ data = TestData
    /\ threshold \in Threshold
    /\ labels_a = << >>
    /\ labels_b = << >>
    /\ cascade_labels = << >>
    /\ cascade_outcome = "none"
    /\ NoEvaluation
    /\ NoSlugs

\* Variant: training is skipped whatever load_model returned.
SkipTrainingAlways(result) == TRUE

\* Training is skipped if load_model returned true.
SkipTraining(result) == result = "True"

\* prepare()
PipelinePrepare ==
    /\ pc = "prepare"
    /\ pc' = "load_model"
    /\ trace' = Append(trace, "prepare")
    /\ UNCHANGED << run, route, previous >>
    /\ UNCHANGED << metricVars, predictVars, lifecycleVars, slugVars, prepVars >>

\* load_model(model_path); training is skipped if it returns true.
PipelineLoad ==
    /\ pc = "load_model"
    /\ CascadeLoadModel(ModelPath)
    /\ route' = IF last_call'.result = "True" THEN "hit"
                ELSE IF \/ matcher_a'.origin = "loaded"
                        \/ matcher_b'.origin = "loaded"
                     THEN "partial"
                ELSE "miss"
    /\ pc' = IF SkipTraining(last_call'.result) THEN "predict" ELSE "train"
    /\ trace' = Append(trace, "load_model")
    /\ UNCHANGED << run, previous >>
    /\ UNCHANGED << metricVars, predictVars, slugVars, prepVars >>

\* train(train_data, dev_data, cache_path)
PipelineTrain ==
    /\ pc = "train"
    /\ \E wa, wb \in TrainedWeights :
          CascadeTrain("train", "dev", CachePath, wa, wb)
    /\ pc' = IF last_call'.result = "None" THEN "save_model" ELSE "failed"
    /\ trace' = Append(trace, "train")
    /\ UNCHANGED << kind_a, kind_b, slug_a, slug_b >>
    /\ UNCHANGED << run, route, previous >>
    /\ UNCHANGED << metricVars, predictVars, slugVars, prepVars >>

\* save_model(model_path)
PipelineSave ==
    /\ pc = "save_model"
    /\ CascadeSaveModel(ModelPath)
    /\ pc' = IF last_call'.result = "None" THEN "predict" ELSE "failed"
    /\ trace' = Append(trace, "save_model")
    /\ UNCHANGED << run, route, previous >>
    /\ UNCHANGED << metricVars, predictVars, slugVars, prepVars >>

\* predict(test_data) -> Labels
PipelinePredict ==
    LET la  == SubPredict(matcher_a, data)
        lb  == SubPredict(matcher_b, data)
        res == PredictResult(data, la.labels, lb.labels, threshold)
    IN  /\ pc = "predict"
        /\ IF la.raised
           THEN /\ labels_a' = << >>
                /\ labels_b' = << >>
                /\ cascade_labels' = << >>
                /\ cascade_outcome' = "AttributeError"
           ELSE IF lb.raised
           THEN /\ labels_a' = la.labels
                /\ labels_b' = << >>
                /\ cascade_labels' = << >>
                /\ cascade_outcome' = "AttributeError"
           ELSE /\ labels_a' = la.labels
                /\ labels_b' = lb.labels
                /\ cascade_labels' = res.labels
                /\ cascade_outcome' = res.outcome
        /\ pc' = IF cascade_outcome' = "returned" THEN "done" ELSE "failed"
        /\ trace' = Append(trace, "predict")
        /\ UNCHANGED << data, threshold >>
        /\ UNCHANGED << run, route, previous >>
        /\ UNCHANGED << metricVars, lifecycleVars, slugVars, prepVars >>

\* The next run: a new process builds a fresh Cascade of the same
\* configuration over the file system the run before left behind.
NextRun ==
    /\ pc = "done"
    /\ run < MaxRuns
    /\ run' = run + 1
    /\ pc' = "prepare"
    /\ previous' = [route |-> route, labels |-> cascade_labels]
    /\ route' = "none"
    /\ trace' = << >>
    /\ matcher_a' = NoModel
    /\ matcher_b' = NoModel
    /\ last_call' = [op |-> "none"]
    /\ labels_a' = << >>
    /\ labels_b' = << >>
    /\ cascade_labels' = << >>
    /\ cascade_outcome' = "none"
    /\ UNCHANGED << kind_a, kind_b, slug_a, slug_b, fs, data, threshold >>
    /\ UNCHANGED << metricVars, slugVars, prepVars >>

PipelineNext ==
    \/ PipelinePrepare
    \/ PipelineLoad
    \/ PipelineTrain
    \/ PipelineSave
    \/ PipelinePredict
    \/ NextRun

PipelineSpec == PipelineInit /\ [][PipelineNext]_vars

\* ---------------------------------------------------- one learned matcher

\* The paths a learned matcher is handed: model_path / slug.
MatcherPaths == { PathJoin(ModelPath, slug) : slug \in SubSlug }

\* A lifecycle call on the matcher ended; retrained tells whether train was
\* called since the last predict.
MatcherEnded(op, path, result, retrained) ==
    [op |-> op, path |-> path, result |-> result, retrained |-> retrained]

MatcherInit ==
    /\ kind_a \in MatcherKind
    /\ kind_b = "none"
    /\ slug_a = "x"
    /\ slug_b = "y"
    /\ matcher_a = NoModel
    /\ matcher_b = NoModel
    /\ fs \in FileSystems
    /\ last_call = [op |-> "none", retrained |-> FALSE]
    /\ NoPipeline
    /\ NoEvaluation
    /\ data = TestData
    /\ threshold = Half
    /\ labels_a = << >>
    /\ labels_b = << >>
    /\ cascade_labels = << >>
    /\ cascade_outcome = "none"

\* load_model(path) of the matcher
MatcherLoadModel ==
    /\ \E path \in MatcherPaths :
          LET l == SubLoadModel(kind_a, matcher_a, fs, path)
          IN  /\ matcher_a' = l.m
              /\ last_call' =
                    MatcherEnded("load_model", path,
                                 IF l.result THEN "True" ELSE "False",
                                 last_call.retrained)
    /\ UNCHANGED << kind_a, kind_b, slug_a, slug_b, matcher_b, fs >>
    /\ UNCHANGED << metricVars, predictVars, pipelineVars, slugVars, prepVars >>

\* save_model(path) of the matcher
MatcherSaveModel ==
    /\ \E path \in MatcherPaths :
          LET sv == SubSaveModel(kind_a, matcher_a, fs, path)
          IN  /\ fs' = sv.fs
              /\ last_call' =
                    MatcherEnded("save_model", path,
                                 IF sv.err = "ok" THEN "None" ELSE sv.err,
                                 last_call.retrained)
    /\ UNCHANGED << kind_a, kind_b, slug_a, slug_b, matcher_a, matcher_b >>
    /\ UNCHANGED << metricVars, predictVars, pipelineVars, slugVars, prepVars >>

\* train(train_data, dev_data, cache_path) of the matcher
MatcherTrain ==
    /\ \E w \in TrainedWeights :
          LET t == SubTrain(kind_a, matcher_a, w)
          IN  /\ matcher_a' = t.m
              /\ last_call' =
                    MatcherEnded("train", CachePath,
                                 IF t.err = "ok" THEN "None" ELSE t.err,
                                 TRUE)
    /\ UNCHANGED << kind_a, kind_b, slug_a, slug_b, matcher_b, fs >>
    /\ UNCHANGED << metricVars, predictVars, pipelineVars, slugVars, prepVars >>

\* predict(data) of the matcher
MatcherPredict ==
    LET pr == SubPredict(matcher_a, data)
    IN  /\ labels_a' = IF pr.raised THEN labels_a ELSE pr.labels
        /\ last_call' =
              MatcherEnded("predict", << >>,
                           IF pr.raised THEN "AttributeError" ELSE "Labels",
                           IF pr.raised THEN last_call.retrained ELSE FALSE)
        /\ UNCHANGED << data, threshold, labels_b, cascade_labels,
                        cascade_outcome >>
        /\ UNCHANGED << kind_a, kind_b, slug_a, slug_b, matcher_a,
                        matcher_b, fs >>
        /\ UNCHANGED << metricVars, pipelineVars, slugVars, prepVars >>

\* Something else removes what is stored under a path.
PathRemoved ==
    /\ \E path \in MatcherPaths :
          /\ Exists(fs, path)
          /\ fs' = [fs EXCEPT ![path] = Absent]
    /\ UNCHANGED << kind_a, kind_b, slug_a, slug_b, matcher_a, matcher_b,
                    last_call >>
    /\ UNCHANGED << metricVars, predictVars, pipelineVars, slugVars, prepVars >>

MatcherNext ==
    \/ MatcherLoadModel
    \/ MatcherSaveModel
    \/ MatcherTrain
    \/ MatcherPredict
    \/ PathRemoved

MatcherSpec == MatcherInit /\ [][MatcherNext]_vars

\* ------------------------------------------------------- UntrainedMatcher

\* Largest number of lifecycle calls made on one UntrainedMatcher.
MaxLifecycleCalls == 3

\* Variant: train fits a model.
UntrainedTrainFits(m, w) == [err |-> "ok", m |-> [m EXCEPT !.model = w]]

\* UntrainedMatcher.train: nothing to train.
UntrainedTrain(m, w) == [err |-> "ok", m |-> m]

\* UntrainedMatcher.load_model: nothing to load.
UntrainedLoadModel(m, f, path) == [result |-> TRUE, m |-> m]

\* UntrainedMatcher.save_model: nothing to save.
UntrainedSaveModel(m, f, path) == [err |-> "ok", fs |-> f]

\* predict(data) of a deterministic matcher: a function of the attributes
\* the instance was built with and of the data.
UntrainedPredict(m, d) == SubPredict(m, d).labels

\* A lifecycle call on the UntrainedMatcher ended; history lists the
\* operations called so far.
UntrainedEnded(op, path, result) ==
    [op |-> op, path |-> path, result |-> result,
     history |-> Append(last_call.history, op)]

UntrainedInit ==
    /\ kind_a = "untrained"
    /\ kind_b = "untrained"
    /\ slug_a = "x"
    /\ slug_b = "y"
    /\ matcher_a \in { [model |-> w, origin |-> "none"] :
                         w \in StoredWeights \cup TrainedWeights }
    /\ matcher_b = NoModel
    /\ fs \in FileSystems
    /\ last_call = [op |-> "none", history |-> << >>]
    /\ NoPipeline
    /\ NoEvaluation
    /\ data = TestData
    /\ threshold = Half
    /\ labels_a = << >>
    /\ labels_b = << >>
    /\ cascade_labels = << >>
    /\ cascade_outcome = "none"

UntrainedLoad ==
    /\ Len(last_call.history) < MaxLifecycleCalls
    /\ \E path \in Paths :
          LET l == UntrainedLoadModel(matcher_a, fs, path)
          IN  /\ matcher_a' = l.m
              /\ last_call' =
                    UntrainedEnded("load_model", path,
                                   IF l.result THEN "True" ELSE "False")
    /\ UNCHANGED << kind_a, kind_b, slug_a, slug_b, matcher_b, fs >>
    /\ UNCHANGED << metricVars, predictVars, pipelineVars, slugVars, prepVars >>

UntrainedSave ==
    /\ Len(last_call.history) < MaxLifecycleCalls
    /\ \E path \in Paths :
          LET sv == UntrainedSaveModel(matcher_a, fs, path)
          IN  /\ fs' = sv.fs
              /\ last_call' = UntrainedEnded("save_model", path, "None")
    /\ UNCHANGED << kind_a, kind_b, slug_a, slug_b, matcher_a, matcher_b >>
    /\ UNCHANGED << metricVars, predictVars, pipelineVars, slugVars, prepVars >>

UntrainedTrainCall ==
    /\ Len(last_call.history) < MaxLifecycleCalls
    /\ \E path \in Paths, w \in TrainedWeights :
          LET t == UntrainedTrain(matcher_a, w)
          IN  /\ matcher_a' = t.m
              /\ last_call' = UntrainedEnded("train", path, "None")
    /\ UNCHANGED << kind_a, kind_b, slug_a, slug_b, matcher_b, fs >>
    /\ UNCHANGED << metricVars, predictVars, pipelineVars, slugVars, prepVars >>

UntrainedPredictCall ==
    /\ Len(last_call.history) < MaxLifecycleCalls
    /\ labels_a' = UntrainedPredict(matcher_a, data)
    /\ last_call' = UntrainedEnded("predict", << >>, "Labels")
    /\ UNCHANGED << data, threshold, labels_b, cascade_labels,
                    cascade_outcome >>
    /\ UNCHANGED << kind_a, kind_b, slug_a, slug_b, matcher_a, matcher_b,
                    fs >>
    /\ UNCHANGED << metricVars, pipelineVars, slugVars, prepVars >>

UntrainedNext ==
    \/ UntrainedLoad
    \/ UntrainedSave
    \/ UntrainedTrainCall
    \/ UntrainedPredictCall

UntrainedSpec == UntrainedInit /\ [][UntrainedNext]_vars

\* ------------------------------------------------------------------ slugs

\* A str is the sequence of its characters.
Digit(n) == << "0", "1", "2", "3", "4", "5", "6", "7", "8", "9" >>[n + 1]

RECURSIVE IntStr(_)
\* str(n) of a non-negative int, as an f-string formats it.
IntStr(n) ==
    IF n < 10 THEN << Digit(n) >>
    ELSE IntStr(n \div 10) \o << Digit(n % 10) >>

\* The float d * 10^-k, with one significant digit d.
Float(d, k) == [d |-> d, k |-> k]

Zeros(n) == [i \in 1..n |-> "0"]

\* str(x) of a float, as an f-string formats it: the shortest repr, in
\* exponent notation below 1e-04.
FloatStr(x) ==
    IF x.d = 0 THEN << "0", ".", "0" >>
    ELSE IF x.k = 0 THEN << Digit(x.d), ".", "0" >>
    ELSE IF x.k <= 4 THEN << "0", "." >> \o Zeros(x.k - 1) \o << Digit(x.d) >>
    ELSE << Digit(x.d), "e", "-", "0", Digit(x.k) >>

\* x > 0
Positive(x) == x.d > 0

\* Cascade.slug
CascadeSlug(th, a, b) ==
    << "c", "a", "s", "c", "a", "d", "e" >> \o << "-" >> \o FloatStr(th)
        \o << "-" >> \o a \o << "-" >> \o b

\* Variant: LabelPolicy.relaxed gets no suffix.
LabelPolicySuffixStrictOnly(policy) ==
    IF policy = "strict" THEN << "-", "s", "t", "r", "i", "c", "t" >> ELSE << >>

\* label_policy_suffix
LabelPolicySuffix(policy) ==
    IF policy = "relaxed" THEN << "-", "r", "e", "l", "a", "x", "e", "d" >>
    ELSE IF policy = "strict" THEN << "-", "s", "t", "r", "i", "c", "t" >>
    ELSE << >>

\* BidirectionalLstmMatcher.slug
BilstmSlug(hp) ==
    LET dropout_suffix ==
            IF Positive(hp.dropout)
            THEN << "-", "d", "r", "o", "p", "o", "u", "t", "-" >> \o FloatStr(hp.dropout) ELSE << >>
        weight_decay_suffix ==
            IF Positive(hp.weight_decay)
            THEN << "-", "w", "e", "i", "g", "h", "t", "-", "d", "e", "c", "a", "y", "-" >> \o FloatStr(hp.weight_decay) ELSE << >>
        shuffle_suffix ==
            IF hp.shuffle > 0
            THEN << "-", "s", "h", "u", "f", "f", "l", "e", "-" >> \o IntStr(hp.shuffle) ELSE << >>
        early_stopping_suffix ==
            IF hp.early_stopping THEN << "-", "e", "a", "r", "l", "y", "-", "s", "t", "o", "p", "p", "i", "n", "g" >> ELSE << >>
        augment_suffix ==
            IF hp.augment > 0
            THEN << "-", "a", "u", "g", "m", "e", "n", "t", "-" >> \o IntStr(hp.augment) ELSE << >>
        label_policy_suffix == LabelPolicySuffix(hp.label_policy)
    IN  << "b", "i", "l", "s", "t", "m", "-" >> \o IntStr(hp.units) \o << "-" >> \o IntStr(hp.layers)
            \o << "-", "g", "l", "o", "v", "e", "-", "e", "m", "b", "e", "d", "d", "i", "n", "g", "s" >>
            \o << "-", "m", "a", "x", "-", "l", "e", "n", "g", "t", "h", "-" >> \o IntStr(hp.max_length)
            \o dropout_suffix
            \o << "-", "l", "e", "a", "r", "n", "-" >> \o FloatStr(hp.learning_rate)
            \o weight_decay_suffix
            \o shuffle_suffix
            \o << "-", "b", "a", "t", "c", "h", "-" >> \o IntStr(hp.batch_size)
            \o << "-", "e", "p", "o", "c", "h", "s", "-" >> \o IntStr(hp.epochs)
            \o early_stopping_suffix
            \o augment_suffix
            \o label_policy_suffix

\* Thresholds 0.5, 0.9 and 1.0.
SlugThreshold == {Float(5, 1), Float(9, 1), Float(1, 0)}

\* Slugs of sub-matchers: x, x-y, y-z and z.
SubMatcherSlug == {<< "x" >>, << "x", "-", "y" >>, << "y", "-", "z" >>, << "z" >>}

LabelPolicy == {"skip", "relaxed", "strict"}

\* Hyperparameters: the defaults of __init__, with dropout 0 or 0.1,
\* learning_rate 1e-05 or 0.001, weight_decay 0 or 0.01, shuffle 0 or 1000,
\* augment 0 or 2, and every early_stopping and label_policy.
Hyperparameters ==
    [units          : {16},
     layers         : {1},
     max_length     : {512},
     dropout        : {Float(0, 0), Float(1, 1)},
     learning_rate  : {Float(1, 5), Float(1, 3)},
     weight_decay   : {Float(0, 0), Float(1, 2)},
     shuffle        : {0, 1000},
     batch_size     : {16},
     epochs         : {10},
     early_stopping : BOOLEAN,
     augment        : {0, 2},
     label_policy   : LabelPolicy]

ReadCascade(th, a, b) ==
    [threshold |-> th, slug_a |-> a, slug_b |-> b,
     slug |-> CascadeSlug(th, a, b)]

\* The slug of a first Cascade is read.
FirstCascadeSlug ==
    /\ cascade_1 = NotRead
    /\ \E th \in SlugThreshold, a \in SubMatcherSlug, b \in SubMatcherSlug :
           cascade_1' = ReadCascade(th, a, b)
    /\ UNCHANGED << cascade_2, bilstm, bilstm_2 >>
    /\ UNCHANGED << metricVars, predictVars, lifecycleVars, pipelineVars,
                    prepVars >>

\* The slug of a second Cascade is read.
SecondCascadeSlug ==
    /\ cascade_2 = NotRead
    /\ \E th \in SlugThreshold, a \in SubMatcherSlug, b \in SubMatcherSlug :
           cascade_2' = ReadCascade(th, a, b)
    /\ UNCHANGED << cascade_1, bilstm, bilstm_2 >>
    /\ UNCHANGED << metricVars, predictVars, lifecycleVars, pipelineVars,
                    prepVars >>

\* The slug of a BidirectionalLstmMatcher is read.
BilstmSlugRead ==
    /\ bilstm = NotRead
    /\ \E hp \in Hyperparameters :
           bilstm' = [hp |-> hp, slug |-> BilstmSlug(hp)]
    /\ UNCHANGED << cascade_1, cascade_2, bilstm_2 >>
    /\ UNCHANGED << metricVars, predictVars, lifecycleVars, pipelineVars,
                    prepVars >>

\* The defaults of BidirectionalLstmMatcher.__init__.
DefaultHyperparameters ==
    [units          |-> 16,
     layers         |-> 1,
     max_length     |-> 512,
     dropout        |-> Float(0, 0),
     learning_rate  |-> Float(1, 5),
     weight_decay   |-> Float(0, 0),
     shuffle        |-> 1000,
     batch_size     |-> 16,
     epochs         |-> 10,
     early_stopping |-> FALSE,
     augment        |-> 0,
     label_policy   |-> "skip"]

\* Every hyperparameter with its default and another value: units 1,
\* layers 61, max_length 5, dropout 0.1, learning_rate 0.001, weight_decay
\* 0.01, shuffle 0, batch_size 1, epochs 6, augment 2.
AllHyperparameters ==
    [units          : {16, 1},
     layers         : {1, 61},
     max_length     : {512, 5},
     dropout        : {Float(0, 0), Float(1, 1)},
     learning_rate  : {Float(1, 5), Float(1, 3)},
     weight_decay   : {Float(0, 0), Float(1, 2)},
     shuffle        : {1000, 0},
     batch_size     : {16, 1},
     epochs         : {10, 6},
     early_stopping : BOOLEAN,
     augment        : {0, 2},
     label_policy   : LabelPolicy]

\* The keyword arguments an instance is built with differ from the
\* defaults in at most two places.
ComparedHyperparameters ==
    { hp \in AllHyperparameters :
        Cardinality({ f \in DOMAIN hp :
                        hp[f] # DefaultHyperparameters[f] }) <= 2 }

\* The slug of a first BidirectionalLstmMatcher is read.
FirstBilstmSlug ==
    /\ bilstm = NotRead
    /\ \E hp \in ComparedHyperparameters :
           bilstm' = [hp |-> hp, slug |-> BilstmSlug(hp)]
    /\ UNCHANGED << cascade_1, cascade_2, bilstm_2 >>
    /\ UNCHANGED << metricVars, predictVars, lifecycleVars, pipelineVars,
                    prepVars >>

\* The slug of a second BidirectionalLstmMatcher is read.
SecondBilstmSlug ==
    /\ bilstm_2 = NotRead
    /\ \E hp \in ComparedHyperparameters :
           bilstm_2' = [hp |-> hp, slug |-> BilstmSlug(hp)]
    /\ UNCHANGED << cascade_1, cascade_2, bilstm >>
    /\ UNCHANGED << metricVars, predictVars, lifecycleVars, pipelineVars,
                    prepVars >>

SlugInit ==
    /\ NoEvaluation
    /\ NoCascade

SlugNext == FirstCascadeSlug \/ SecondCascadeSlug \/ BilstmSlugRead

SlugSpec == SlugInit /\ [][SlugNext]_vars

BilstmSlugNext == FirstBilstmSlug \/ SecondBilstmSlug

BilstmSlugSpec == SlugInit /\ [][BilstmSlugNext]_vars

\* ------------------------------------------------- _prepare_labelled_data

\* arg.text, kp.text: the text of an item, told apart by the item's id.
TextOf(item) == << item.id, 0 >>

\* augmenter.augment(text, n=augment): n variants of the text.
Augmented(item, n) == [j \in 1..n |-> << item.id, j >>]

\* zip(a, b)
Zip(a, b) ==
    LET n == IF Len(a) <= Len(b) THEN Len(a) ELSE Len(b)
    IN  [i \in 1..n |-> << a[i], b[i] >>]

\* [(arg, kp) for arg in arguments for kp in key_points if eligible], the
\* two sets iterating in the orders arg_order and kp_order.
NestedPairs(arg_order, kp_order) ==
    LET n == Len(kp_order)
        all == [i \in 1..(Len(arg_order) * n) |->
                   << arg_order[((i - 1) \div n) + 1],
                      kp_order[((i - 1) % n) + 1] >>]
        IsEligible(pr) == Eligible(pr[1], pr[2])
    IN  SelectSeq(all, IsEligible)

\* Variant: no pair is dropped.
SkipFilterKeepsAll(pairs, labels, policy) == pairs

\* if label_policy == LabelPolicy.skip: keep the pairs that have a label.
SkipFilter(pairs, labels, policy) ==
    LET IsLabelled(pr) == << pr[1].id, pr[2].id >> \in DOMAIN labels
    IN  IF policy = "skip" THEN SelectSeq(pairs, IsLabelled) ELSE pairs

\* What is appended to labels for a text pair of a pair without a label.
MissingLabel(policy) ==
    IF policy = "strict" THEN << 0 >>
    ELSE IF policy = "relaxed" THEN << One >>
    ELSE << >>

\* What is appended to labels for one text pair of the pair pr.
LabelFor(pr, labels, policy) ==
    IF << pr[1].id, pr[2].id >> \notin DOMAIN labels
    THEN MissingLabel(policy)
    ELSE << labels[<< pr[1].id, pr[2].id >>] >>

\* The text pairs of one pair: the original texts and, with an augmenter
\* (augment >= 2), the variants.
TextPairs(pr, n) ==
    IF n >= 2
    THEN Zip(<< TextOf(pr[1]) >> \o Augmented(pr[1], n),
             << TextOf(pr[2]) >> \o Augmented(pr[2], n))
    ELSE Zip(<< TextOf(pr[1]) >>, << TextOf(pr[2]) >>)

RECURSIVE Repeat(_, _)
Repeat(seq, n) == IF n = 0 THEN << >> ELSE seq \o Repeat(seq, n - 1)

RECURSIVE Examples(_, _, _, _)
\* The loop `for arg, kp in pairs`: the text pairs and the labels appended.
Examples(pairs, labels, n, policy) ==
    IF pairs = << >> THEN [texts |-> << >>, labels |-> << >>]
    ELSE LET tp   == TextPairs(Head(pairs), n)
             rest == Examples(Tail(pairs), labels, n, policy)
         IN  [texts  |-> tp \o rest.texts,
              labels |-> Repeat(LabelFor(Head(pairs), labels, policy),
                                Len(tp)) \o rest.labels]

\* Labels of a LabelledDataset: 0 or 1 for some of the pairs.
GoldLabels == SubLabels({0, One})

LabelledDataset ==
    { [arguments |-> d.arguments, key_points |-> d.key_points,
       labels |-> l] : d \in Dataset, l \in GoldLabels }

Augment == {0, 1, 2}

PrepareInit ==
    /\ labelled_data \in LabelledDataset
    /\ augment \in Augment
    /\ label_policy \in LabelPolicy
    /\ texts = << >>
    /\ train_labels = << >>
    /\ prepared = FALSE
    /\ cascade_1 = NotRead
    /\ cascade_2 = NotRead
    /\ bilstm = NotRead
    /\ bilstm_2 = NotRead
    /\ pc = "free"
    /\ run = 1
    /\ route = "none"
    /\ previous = [route |-> "none", labels |-> << >>]
    /\ trace = << >>
    /\ kind_a = "bilstm"
    /\ kind_b = "bilstm"
    /\ slug_a = "x"
    /\ slug_b = "y"
    /\ matcher_a = NoModel
    /\ matcher_b = NoModel
    /\ fs = << >>
    /\ last_call = [op |-> "none"]
    /\ data = [arguments |-> {}, key_points |-> {}]
    /\ threshold = Half
    /\ labels_a = << >>
    /\ labels_b = << >>
    /\ cascade_labels = << >>
    /\ cascade_outcome = "none"
    /\ NoEvaluation

\* _prepare_labelled_data(labelled_data, augment, label_policy)
PrepareLabelledData ==
    /\ ~prepared
    /\ \E arg_order \in Orderings(labelled_data.arguments),
          kp_order \in Orderings(labelled_data.key_points) :
          LET pairs == SkipFilter(NestedPairs(arg_order, kp_order),
                                  labelled_data.labels, label_policy)
              ex    == Examples(pairs, labelled_data.labels, augment,
                                label_policy)
          IN  /\ texts' = ex.texts
              /\ train_labels' = ex.labels
    /\ prepared' = TRUE
    /\ UNCHANGED << labelled_data, augment, label_policy >>
    /\ UNCHANGED << metricVars, predictVars, lifecycleVars, pipelineVars,
                    slugVars >>

PrepareNext == PrepareLabelledData

PrepareSpec == PrepareInit /\ [][PrepareNext]_vars

\* ------------------------------------------------------------ claim helpers

Called == outcome # "none"

Returned == outcome = "returned"

KeysOf(labels) == DOMAIN labels

\* The label pair (y_true, y_pred) the reconciliation rules give to an id.
ExpectedTrue(id) ==
    IF id \in KeysOf(ground_truth_labels)
    THEN (IF ground_truth_labels[id] >= Half THEN 1 ELSE 0)
    ELSE (IF mode = "relaxed" THEN 1 ELSE 0)

ExpectedPred(id) ==
    IF predicted_labels[id] >= Half THEN 1 ELSE 0

\* Number of positions on which y_true and y_pred agree.
Agreements ==
    Cardinality({ i \in 1..Len(y_true) : y_true[i] = y_pred[i] })

\* The multiset of (y_true, y_pred) pairs of the last call, as the number of
\* positions holding each pair.
PairCount(yt, yp) ==
    [ pair \in {0, 1} \X {0, 1} |->
        Cardinality({ i \in 1..Len(yt) :
                        i <= Len(yp) /\ << yt[i], yp[i] >> = pair }) ]

\* ---------------------------------------------------------------------- C1
\* C1: get_all_ids(P, G) is exactly the union of the keys of P and of G:
\* an id is in the result iff it is a key of P or a key of G, and when P
\* and G share no key the result has |P| + |G| elements.
C1_GetAllIdsIsUnion ==
    Called =>
        /\ \A id \in ArgumentKeyPointIdPair :
               id \in ids <=> (\/ id \in KeysOf(predicted_labels)
                               \/ id \in KeysOf(ground_truth_labels))
        /\ (KeysOf(predicted_labels) \cap KeysOf(ground_truth_labels) = {}
               => Cardinality(ids) =
                      Cardinality(KeysOf(predicted_labels))
                    + Cardinality(KeysOf(ground_truth_labels)))

C1_Witness ==
    /\ Called
    /\ KeysOf(predicted_labels) # {}
    /\ KeysOf(ground_truth_labels) # {}
    /\ KeysOf(predicted_labels) \cap KeysOf(ground_truth_labels) = {}
    /\ Cardinality(ids) = 3

\* ---------------------------------------------------------------------- C2
\* C2: whenever some id of the union has no predicted entry, the call fails
\* with a KeyError in either mode and binds no y_pred: no default stands in
\* for the missing prediction.
C2_MissingPredictionIsKeyError ==
    (Called /\ \E id \in ids : id \notin KeysOf(predicted_labels))
        => (outcome = "KeyError" /\ y_pred = << >>)

C2_Witness ==
    /\ outcome = "KeyError"
    /\ mode = "relaxed"
    /\ \E id \in ids : id \notin KeysOf(predicted_labels)
    /\ \E id \in ids : id \in KeysOf(predicted_labels)

C4_YPredRule ==
    Returned =>
        /\ Len(y_pred) = Cardinality(ids)
        /\ \A i \in 1..Len(y_pred) :
              /\ order[i] \in KeysOf(predicted_labels)
              /\ y_pred[i] = 1 <=> predicted_labels[order[i]] >= Half
              /\ y_pred[i] \in {0, 1}

C4_Witness ==
    /\ Returned
    /\ \E i \in 1..Len(y_pred) :
          predicted_labels[order[i]] = Half /\ y_pred[i] = 1
    /\ \E i \in 1..Len(y_pred) :
          predicted_labels[order[i]] < Half /\ y_pred[i] = 0

C6_MissingGroundTruthIsNoError ==
    (Called /\ \A id \in ids : id \in KeysOf(predicted_labels))
        => /\ Returned
           /\ Len(y_true) = Cardinality(ids)

C6_Witness ==
    /\ Returned
    /\ KeysOf(ground_truth_labels) = {}
    /\ Cardinality(KeysOf(predicted_labels)) = 2

\* ---------------------------------------------------------------------- C7
\* C7: a returned y_true and y_pred have the same length, the number of ids
\* of the union, and are aligned: some enumeration of the union, each id
\* once, gives at every position i the id both y_true[i] and y_pred[i]
\* belong to.
C7_SameLengthAndAligned ==
    Returned =>
        LET union == KeysOf(predicted_labels) \cup KeysOf(ground_truth_labels)
        IN  /\ Len(y_true) = Len(y_pred)
            /\ Len(y_true) = Cardinality(union)
            /\ \E e \in Orderings(union) :
                  \A i \in 1..Len(e) :
                      /\ y_true[i] = ExpectedTrue(e[i])
                      /\ y_pred[i] = ExpectedPred(e[i])

C7_Witness ==
    /\ Returned
    /\ Len(y_true) = 2
    /\ Len(y_pred) = 2
    /\ y_pred[1] # y_pred[2]
    /\ y_true[1] # y_true[2]

\* ---------------------------------------------------------------------- C8
\* C8: the scenario P = {(a1,k1): 0.9, (a1,k2): 0.3}, G = {(a1,k1): 1.0}.
ScenarioPredicted ==
    [id \in {<< "a1", "k1" >>, << "a1", "k2" >>} |->
        IF id = << "a1", "k1" >> THEN 9 ELSE 3]

ScenarioGroundTruth == [id \in {<< "a1", "k1" >>} |-> One]

PositionOf(id) == CHOOSE i \in 1..Len(order) : order[i] = id

C9_RepeatableAndInputsUnchanged ==
    [][ /\ predicted_labels' = predicted_labels
        /\ ground_truth_labels' = ground_truth_labels
        /\ mode' = mode
        /\ Called =>
              /\ outcome' = outcome
              /\ PairCount(y_true', y_pred') = PairCount(y_true, y_pred)
              /\ Len(y_true') = Len(y_true)
              /\ Len(y_pred') = Len(y_pred) ]_vars

C9_Witness ==
    /\ calls = 2
    /\ Returned
    /\ Len(y_true) = 3
    /\ PairCount(y_true, y_pred)[<< 1, 0 >>] = 1
    /\ PairCount(y_true, y_pred)[<< 0, 1 >>] = 1
    /\ PairCount(y_true, y_pred)[<< 1, 1 >>] = 1

\* --------------------------------------------------------------------- C10
\* C10 (docstring): a missing ground-truth label is filled with the
\* corresponding predicted label, so for every id of the union without a
\* ground-truth entry the returned y_true equals the returned y_pred.
C10_MissingGroundTruthFilledWithPrediction ==
    Returned =>
        \A i \in 1..Len(order) :
            order[i] \notin KeysOf(ground_truth_labels)
                => y_true[i] = y_pred[i]

\* ------------------------------------------------- Cascade claim helpers

Predicted == cascade_outcome # "none"

PredictReturned == cascade_outcome = "returned"

\* The (argument id, key point id) pairs of the dataset whose argument and
\* key point have equal topic and equal stance.
EligiblePairIds ==
    { << arg.id, kp.id >> :
        << arg, kp >> \in { pr \in data.arguments \X data.key_points :
                              /\ pr[1].topic = pr[2].topic
                              /\ pr[1].stance = pr[2].stance } }

\* --------------------------------------------------------------------- C11
\* C11: for every eligible pair the Cascade returns A's label when it is
\* >= threshold (equality included) and B's label otherwise; with threshold
\* 0.5, A predicting 0.9 and B predicting 0.1 on every pair, the Cascade
\* returns 0.9 for every pair.
C11_ThresholdGate ==
    PredictReturned =>
        /\ \A p \in EligiblePairIds :
              /\ p \in DOMAIN cascade_labels
              /\ labels_a[p] >= threshold => cascade_labels[p] = labels_a[p]
              /\ labels_a[p] < threshold => cascade_labels[p] = labels_b[p]
        /\ (/\ threshold = Half
            /\ \A p \in EligiblePairIds :
                  /\ p \in DOMAIN labels_a /\ labels_a[p] = 9
                  /\ p \in DOMAIN labels_b /\ labels_b[p] = 1)
              => \A p \in EligiblePairIds : cascade_labels[p] = 9

C11_Witness ==
    /\ PredictReturned
    /\ \E p, q \in EligiblePairIds :
          /\ labels_a[p] = threshold
          /\ cascade_labels[p] = labels_a[p]
          /\ p \in DOMAIN labels_b
          /\ labels_b[p] # labels_a[p]
          /\ labels_a[q] < threshold
          /\ cascade_labels[q] = labels_b[q]
          /\ labels_b[q] # labels_a[q]

\* --------------------------------------------------------------------- C12
\* C12: the keys of a returned Cascade result are exactly the eligible
\* pairs of the dataset; a pair that differs in topic or in stance is no
\* key of it, even if a sub-matcher's result has that pair.
C12_OnlyEligiblePairs ==
    PredictReturned =>
        /\ DOMAIN cascade_labels = EligiblePairIds
        /\ \A arg \in data.arguments : \A kp \in data.key_points :
              (arg.topic # kp.topic \/ arg.stance # kp.stance)
                  => << arg.id, kp.id >> \notin DOMAIN cascade_labels

C12_Witness ==
    /\ PredictReturned
    /\ \E arg \in data.arguments : \E kp \in data.key_points :
          /\ arg.topic = kp.topic
          /\ arg.stance # kp.stance
          /\ << arg.id, kp.id >> \in DOMAIN labels_a
          /\ << arg.id, kp.id >> \in DOMAIN labels_b
          /\ << arg.id, kp.id >> \notin DOMAIN cascade_labels
    /\ Cardinality(DOMAIN cascade_labels) = 2

\* --------------------------------------------------------------------- C13
\* C13: when B's result lacks an eligible pair that A scored below the
\* threshold, Cascade.predict fails with a KeyError and returns no Labels;
\* no default label stands in for the pair.
C13_MissingFallbackIsKeyError ==
    (/\ Predicted
     /\ \E p \in EligiblePairIds :
           /\ p \in DOMAIN labels_a
           /\ labels_a[p] < threshold
           /\ p \notin DOMAIN labels_b)
        => (cascade_outcome = "KeyError" /\ cascade_labels = << >>)

C13_Witness ==
    /\ cascade_outcome = "KeyError"
    /\ \A p \in EligiblePairIds : p \in DOMAIN labels_a
    /\ \E p \in EligiblePairIds :
          labels_a[p] < threshold /\ p \notin DOMAIN labels_b
    /\ \E p \in EligiblePairIds : p \in DOMAIN labels_b

\* The last lifecycle call of the Cascade.
LastOp == last_call.op

\* --------------------------------------------------------------------- C14
\* C14: Cascade.load_model(path) returns true exactly when path/<slug of A>
\* exists, path/<slug of B> exists, A.load_model on its subdirectory
\* returns true and B.load_model on its subdirectory returns true; in every
\* other case it returns false.
C14_LoadModelIffBoth ==
    [][ last_call'.op = "load_model" =>
          LET path_a == PathJoin(ModelPath, slug_a)
              path_b == PathJoin(ModelPath, slug_b)
          IN  /\ last_call'.result \in {"True", "False"}
              /\ last_call'.result = "True" <=>
                    /\ fs[path_a].type # "absent"
                    /\ fs[path_b].type # "absent"
                    /\ SubLoadModel(kind_a, matcher_a, fs, path_a).result
                    /\ SubLoadModel(kind_b, matcher_b, fs, path_b).result
      ]_vars

C14_Witness ==
    /\ LastOp = "load_model"
    /\ last_call.result = "True"
    /\ matcher_a.origin = "loaded"
    /\ matcher_b.origin = "loaded"
    /\ kind_a = "bilstm"
    /\ kind_b = "pickle"

\* --------------------------------------------------------------------- C15
\* C15: when Cascade.load_model returns false, neither sub-matcher holds
\* state loaded by the call: the model state of A and of B is what it was
\* before the call.
C15_NoPartialAdoption ==
    [][ (last_call'.op = "load_model" /\ last_call'.result = "False")
            => (matcher_a' = matcher_a /\ matcher_b' = matcher_b) ]_vars

C16_PartialCacheIsFullMiss ==
    /\ (matcher_a.origin = "loaded") # (matcher_b.origin = "loaded")
           => pc \in {"train", "failed"} /\ route = "partial"
    /\ (route = "partial" /\ pc \in {"save_model", "predict", "done"})
           => /\ matcher_a.origin = "trained"
              /\ matcher_b.origin = "trained"
    /\ pc \in {"predict", "done"}
           => /\ matcher_a.origin = matcher_b.origin
              /\ matcher_a.origin # "none"

\* A run whose load found A's checkpoint but not B's has trained both
\* sub-matchers and predicted.
C16_Witness ==
    /\ route = "partial"
    /\ pc = "done"
    /\ cascade_outcome = "returned"
    /\ matcher_a.origin = "trained"
    /\ matcher_b.origin = "trained"

\* --------------------------------------------------------------------- C17
\* C17: train followed by save_model(path) on an existing directory
\* completes for every kind of sub-matcher, and the fresh Cascade of the
\* next run, built with the same slugs, gets True from load_model(path) and
\* predicts the Labels the run before predicted on the same dataset.
C17_CachingRoundTrip ==
    /\ (route \in {"partial", "miss"} /\ pc = "failed")
           => last_call.op \notin {"train", "save_model"}
    /\ (previous.route \in {"partial", "miss"}
            /\ pc \in {"train", "save_model", "predict", "done", "failed"})
           => route = "hit"
    /\ (previous.route \in {"partial", "miss"} /\ pc = "done")
           => cascade_labels = previous.labels

\* --------------------------------------------------------------------- C19
SlugCharacters ==
    { "a", "b", "c", "d", "e", "f", "g", "h", "i", "j", "k", "l", "m",
      "n", "o", "p", "q", "r", "s", "t", "u", "v", "w", "x", "y", "z",
      "0", "1", "2", "3", "4", "5", "6", "7", "8", "9", "-" }

OnlySlugCharacters(slug) == \A i \in 1..Len(slug) : slug[i] \in SlugCharacters

\* C19: every slug contains only characters of [a-z0-9-]: the slug of a
\* Cascade whose sub-slugs do, for every threshold, and the slug of a
\* BidirectionalLstmMatcher, for every hyperparameter setting.
C19_SlugsUseOnlySlugCharacters ==
    /\ OnlySlugCharacters(cascade_1.slug)
    /\ OnlySlugCharacters(cascade_2.slug)
    /\ OnlySlugCharacters(bilstm.slug)

\* --------------------------------------------------------------------- C20
SameConfiguration ==
    /\ cascade_1.threshold = cascade_2.threshold
    /\ cascade_1.slug_a = cascade_2.slug_a
    /\ cascade_1.slug_b = cascade_2.slug_b

\* C20: Cascade.slug identifies the configuration: two Cascades have the
\* same slug if and only if they have the same threshold, the same slug of
\* A and the same slug of B, sub-slugs with dashes included.
C20_SlugIdentifiesConfiguration ==
    (cascade_1 # NotRead /\ cascade_2 # NotRead)
        => (cascade_1.slug = cascade_2.slug <=> SameConfiguration)

\* --------------------------------------------------------------------- C29
\* C29: when matcher A's result has no entry for some eligible pair of the
\* dataset, Cascade.predict raises KeyError and returns no Labels, whether
\* or not matcher B's result has an entry for that pair.
C29_PrimaryAbstainsIsKeyError ==
    (/\ Predicted
     /\ \E p \in EligiblePairIds : p \notin DOMAIN labels_a)
        => (cascade_outcome = "KeyError" /\ cascade_labels = << >>)

\* A is missing an eligible pair that B has, and the call raised.
C29_Witness ==
    /\ cascade_outcome = "KeyError"
    /\ \E p \in EligiblePairIds :
          p \notin DOMAIN labels_a /\ p \in DOMAIN labels_b
    /\ \A p \in EligiblePairIds :
          p \in DOMAIN labels_a => labels_a[p] >= threshold

C22_UntrainedLifecycleIsNoOp ==
    [][ /\ last_call'.op = "load_model" => last_call'.result = "True"
        /\ last_call'.op \in {"load_model", "train", "save_model"}
               => (matcher_a' = matcher_a /\ fs' = fs)
        /\ (last_call'.op = "predict" /\ "predict" \in
                { last_call.history[i] : i \in 1..Len(last_call.history) })
               => labels_a' = labels_a ]_vars

\* predict, then train, then predict again.
C22_Witness ==
    /\ last_call.op = "predict"
    /\ last_call.history = << "predict", "train", "predict" >>
    /\ labels_a = UntrainedPredict(matcher_a, data)

\* --------------------------------------------------------------------- C23
IsPrefix(t, u) == Len(t) <= Len(u) /\ \A i \in 1..Len(t) : t[i] = u[i]

\* The operations of a run that loaded its model, and of one that did not.
RunThatLoads == << "prepare", "load_model", "predict" >>

RunThatTrains ==
    << "prepare", "load_model", "train", "save_model", "predict" >>

\* C23: in every pipeline run prepare is called first, then load_model;
\* train and then save_model follow exactly when load_model returned false
\* and are skipped when it returned true; predict comes last, after a true
\* load_model or after train has completed.
C23_PipelineCallOrder ==
    /\ IF route = "hit" THEN IsPrefix(trace, RunThatLoads)
       ELSE IsPrefix(trace, RunThatTrains)
    /\ Len(trace) >= 2 <=> route # "none"
    /\ (pc = "predict" /\ route # "hit")
           => (last_call.op = "save_model" /\ last_call.result = "None")
    /\ pc = "done" => trace \in {RunThatLoads, RunThatTrains}
    /\ (pc = "failed" /\ trace # RunThatTrains /\ trace # RunThatLoads)
           => last_call.result \notin {"None", "True", "False"}

\* A second run loaded what the first run trained and saved.
C23_Witness ==
    /\ pc = "done"
    /\ run = 2
    /\ trace = RunThatLoads
    /\ previous.route = "miss"

\* --------------------------------------------------------------------- C24
\* C24: load_model(path) of a learned matcher returns True if and only if
\* the matcher holds a complete model afterwards, and when it returns False
\* the matcher's model state is as it was before the call.
C24_LoadModelTrueIffReady ==
    [][ last_call'.op = "load_model"
            => /\ last_call'.result = "True" <=> matcher_a'.model # "none"
               /\ last_call'.result = "False" => matcher_a' = matcher_a
      ]_vars

\* --------------------------------------------------------------------- C25
\* C25: once a matcher holds a model, load_model returns True and leaves the
\* held model as it is, whatever is stored under the path at that time; and
\* a predict that follows a predict with no train in between returns the
\* same Labels.
C25_ReloadKeepsModelAndLabels ==
    [][ /\ (last_call'.op = "load_model" /\ matcher_a.model # "none")
               => (last_call'.result = "True" /\ matcher_a' = matcher_a)
        /\ (/\ last_call'.op = "predict"
            /\ last_call'.result = "Labels"
            /\ labels_a # << >>
            /\ ~last_call.retrained)
               => labels_a' = labels_a
      ]_vars

\* A matcher that had loaded a model and predicted was handed, for another
\* load_model, a path under which nothing is stored any more.
C25_Witness ==
    /\ last_call.op = "load_model"
    /\ last_call.result = "True"
    /\ ~last_call.retrained
    /\ matcher_a.origin = "loaded"
    /\ labels_a # << >>
    /\ ~Exists(fs, last_call.path)

\* --------------------------------------------------------------------- C26
\* The two calls Cascade.train makes when neither raises.
BothSubTrainCalls ==
    << SubTrainCall("matcher_a", last_call.train_data, last_call.dev_data,
                    PathJoin(CachePath, slug_a)),
       SubTrainCall("matcher_b", last_call.train_data, last_call.dev_data,
                    PathJoin(CachePath, slug_b)) >>

\* C26: Cascade.train calls train once on A and then once on B, each with
\* the train_data and dev_data it was given and with cache_path/<own slug>,
\* after both subdirectories exist; a train that returns has trained both,
\* and the call on B is left out only when the call on A raised.
C26_TrainsEachOnceInOrder ==
    last_call.op = "train"
        => /\ Len(last_call.sub_calls) <= 2
           /\ \A i \in 1..Len(last_call.sub_calls) :
                  last_call.sub_calls[i] = BothSubTrainCalls[i]
           /\ last_call.sub_calls # << >>
                  => /\ fs[PathJoin(CachePath, slug_a)].type = "dir"
                     /\ fs[PathJoin(CachePath, slug_b)].type = "dir"
           /\ last_call.result = "None"
                  => /\ last_call.sub_calls = BothSubTrainCalls
                     /\ matcher_a.origin = "trained"
                     /\ matcher_b.origin = "trained"
           /\ Len(last_call.sub_calls) = 1
                  => last_call.result = "TypeError"

\* A train that returned, with different slugs, train_data other than
\* dev_data, and the two fits ending with different weights.
C26_Witness ==
    /\ last_call.op = "train"
    /\ last_call.result = "None"
    /\ last_call.train_data # last_call.dev_data
    /\ slug_a # slug_b
    /\ matcher_a.model # matcher_b.model
    /\ Len(last_call.sub_calls) = 2

\* --------------------------------------------------------------------- C27
\* The ids of the eligible pairs of the labelled dataset.
EligibleTrainingIds ==
    { << arg.id, kp.id >> :
        << arg, kp >> \in
            { pr \in labelled_data.arguments \X labelled_data.key_points :
                /\ pr[1].topic = pr[2].topic
                /\ pr[1].stance = pr[2].stance } }

\* The id of the pair the i-th text pair was made from.
ExampleId(i) == << texts[i][1][1], texts[i][2][1] >>

\* C27: the training examples are made from eligible pairs only; an
\* eligible pair without a label yields no example under skip, label 0
\* under strict and label 1 under relaxed; a pair with a label yields its
\* own label; there are as many labels as text pairs.
C27_TrainingExamples ==
    prepared =>
        /\ Len(train_labels) = Len(texts)
        /\ \A i \in 1..Len(texts) :
              /\ ExampleId(i) \in EligibleTrainingIds
              /\ i <= Len(train_labels) =>
                    train_labels[i] =
                        IF ExampleId(i) \in DOMAIN labelled_data.labels
                        THEN labelled_data.labels[ExampleId(i)]
                        ELSE IF label_policy = "strict" THEN 0 ELSE One
              /\ ExampleId(i) \notin DOMAIN labelled_data.labels
                    => label_policy # "skip"
        /\ \A id \in EligibleTrainingIds :
              (label_policy # "skip" \/ id \in DOMAIN labelled_data.labels)
                  => \E i \in 1..Len(texts) : ExampleId(i) = id

\* Under skip, with augmentation, one eligible pair has a label and another
\* has none; an ineligible pair has a label too.
C27_Witness ==
    /\ prepared
    /\ label_policy = "skip"
    /\ augment = 2
    /\ Len(texts) = 3
    /\ \E id \in EligibleTrainingIds : id \notin DOMAIN labelled_data.labels
    /\ \E id \in DOMAIN labelled_data.labels : id \notin EligibleTrainingIds

====
